---- MODULE Spec2Model ----
(***************************************************************************)
(* Model of trivia_game.py: the question loader, main() and the turn loop  *)
(* of TriviaGame.play().  Indices are 0-based as in the source; TLA+       *)
(* sequences are 1-based, so element i of a list is seq[i + 1].            *)
(***************************************************************************)
EXTENDS Integers, Sequences, FiniteSets, TLC

\* ------------------------------------------------------------------ bounds
MaxEntries == 2
MaxPlayers == 2
MaxWrong == 2

\* ------------------------------------------------------------- JSON values
Absent == [t |-> "absent"]
Str(s) == [t |-> "str", s |-> s]
List(l) == [t |-> "list", l |-> l]
Num(n) == [t |-> "num", n |-> n]
Obj(q, o, a) == [t |-> "obj", question |-> q, options |-> o, answer |-> a]
Arr(es) == [t |-> "arr", es |-> es]

Range(s) == {s[i] : i \in 1..Len(s)}

\* Raw array elements a question file may hold.
Entries ==
    { Obj(Str("2+2?"), List(<<"3", "4">>), Str("4")),
      Obj(Str("Q1"), List(<<"a", "b">>), Str("a")),
      Obj(Str("Q3"), List(<<"a">>), Str("a")),
      Obj(Str("Q4"), List(<<"a", "b">>), Str("c")),
      Obj(Absent, Str("ab"), Str("a")),
      Num(5) }

SeqsUpTo(S, n) == UNION {[1..k -> S] : k \in 0..n}

\* What the path given on the command line may lead to.
Files ==
    {[kind |-> "missing", json |-> Absent], [kind |-> "notjson", json |-> Absent]}
    \cup {[kind |-> "json", json |-> Num(5)],
          [kind |-> "json", json |-> Obj(Absent, Absent, Absent)],
          [kind |-> "json", json |-> Obj(Str("Q1"), List(<<"a", "b">>), Str("a"))]}
    \cup {[kind |-> "json", json |-> Arr(es)] : es \in SeqsUpTo(Entries, MaxEntries)}

\* Lines a player may type at the prompt, as sequences of characters.
Inputs ==
    { <<"x">>, <<"0">>, <<"1">>, <<"2">>, <<"3">>, <<" ", "2">> }

\* ------------------------------------------------------------------ int()
Digits == <<"0", "1", "2", "3", "4", "5", "6", "7", "8", "9">>
IsDigit(c) == c \in Range(Digits)
DigitVal(c) == (CHOOSE i \in 1..10 : Digits[i] = c) - 1

RECURSIVE LStrip(_)
LStrip(s) == IF s # <<>> /\ Head(s) = " " THEN LStrip(Tail(s)) ELSE s
RECURSIVE RStrip(_)
RStrip(s) ==
    IF s # <<>> /\ s[Len(s)] = " " THEN RStrip(SubSeq(s, 1, Len(s) - 1)) ELSE s

RECURSIVE DigitsVal(_)
DigitsVal(s) ==
    IF s = <<>> THEN 0 ELSE 10 * DigitsVal(SubSeq(s, 1, Len(s) - 1)) + DigitVal(s[Len(s)])

\* int(text): [ok |-> TRUE, v |-> n], or ok = FALSE for a ValueError.
IntOf(text) ==
    LET s == RStrip(LStrip(text))
        signed == s # <<>> /\ Head(s) \in {"-", "+"}
        body == IF signed THEN Tail(s) ELSE s
    IN IF body # <<>> /\ \A i \in 1..Len(body) : IsDigit(body[i])
       THEN [ok |-> TRUE,
             v |-> IF signed /\ Head(s) = "-" THEN 0 - DigitsVal(body) ELSE DigitsVal(body)]
       ELSE [ok |-> FALSE, v |-> 0]

\* int() of every line of Inputs, computed once.
IntTable == [t \in Inputs |-> IntOf(t)]
ParseInt(text) == IntTable[text]

\* ---------------------------------------------------------------- Question
FieldOrder == <<"question", "options", "answer">>

\* Variant: the length test is off by one and lets a single option through.
validate_options_one(v, values) ==
    \/ Len(v) < 1
    \/ "answer" \in DOMAIN values /\ values["answer"] \notin Range(v)

\* The @validator('options') body: TRUE when it raises ValueError.
\* values holds the fields that were validated before this one.
validate_options(v, values) ==
    \/ Len(v) < 2
    \/ "answer" \in DOMAIN values /\ values["answer"] \notin Range(v)

\* Type check of one field: question and answer are str, options is List[str].
FieldTypeOk(name, raw) ==
    IF name = "options" THEN raw.t = "list" ELSE raw.t = "str"

FieldValue(raw) == IF raw.t = "list" THEN raw.l ELSE raw.s

\* Fields are validated in declaration order; a field that fails is left
\* out of values.  Returns the set of failed fields and the values.
RECURSIVE ValidateFields(_, _, _, _)
ValidateFields(q, k, values, errors) ==
    IF k > Len(FieldOrder) THEN [values |-> values, errors |-> errors]
    ELSE LET name == FieldOrder[k]
             raw == q[name]
             bad == \/ ~FieldTypeOk(name, raw)
                    \/ name = "options" /\ validate_options(raw.l, values)
         IN IF bad
            THEN ValidateFields(q, k + 1, values, errors \cup {name})
            ELSE ValidateFields(q, k + 1,
                                (name :> FieldValue(raw)) @@ values, errors)

\* Question(**q): ok = FALSE stands for ValidationError.
\* oid is the identity of the object: the position of the raw entry it was
\* built from.  NoQuestion stands for None.
NoQuestion == [oid |-> 0, question |-> "", options |-> <<>>, answer |-> ""]
MakeQuestion(q, oid) ==
    LET r == ValidateFields(q, 1, <<>>, {})
    IN IF r.errors = {}
       THEN [ok |-> TRUE,
             q |-> [oid |-> oid,
                    question |-> r.values["question"],
                    options |-> r.values["options"],
                    answer |-> r.values["answer"]]]
       ELSE [ok |-> FALSE, q |-> NoQuestion]

\* ------------------------------------------------------------------ loader
\* q.get('question', 'Unknown')
GetQuestionOrUnknown(q) == IF q.question.t = "absent" THEN Str("Unknown") ELSE q.question

\* The for loop over data: stops with TypeError at the first element that
\* is not a mapping.
RECURSIVE LoadEntries(_, _, _, _)
LoadEntries(es, k, qs, diags) ==
    IF k > Len(es) THEN [raised |-> FALSE, questions |-> qs, diags |-> diags]
    ELSE IF es[k].t # "obj" THEN [raised |-> TRUE, questions |-> qs, diags |-> diags]
    ELSE LET r == MakeQuestion(es[k], k)
         IN IF r.ok
            THEN LoadEntries(es, k + 1, Append(qs, r.q), diags)
            ELSE LoadEntries(es, k + 1, qs,
                             Append(diags, [entry |-> k,
                                            name |-> GetQuestionOrUnknown(es[k])]))

\* What iterating the decoded document yields: a list yields its elements,
\* a dict yields its keys (strings), a number is not iterable.
Keys(o) == {f \in Range(FieldOrder) : o[f].t # "absent"}
LoadData(data) ==
    IF data.t = "arr" THEN LoadEntries(data.es, 1, <<>>, <<>>)
    ELSE IF data.t = "obj" /\ Keys(data) = {}
         THEN [raised |-> FALSE, questions |-> <<>>, diags |-> <<>>]
    ELSE [raised |-> TRUE, questions |-> <<>>, diags |-> <<>>]

\* ------------------------------------------------------------------ engine
Perms(n) == {p \in [1..n -> 1..n] : \A i, j \in 1..n : p[i] = p[j] => i = j}
\* Variant: elements are drawn with replacement (random.choices).
Permute_choices(s, p) == [i \in 1..Len(s) |-> s[p[1]]]
\* random.shuffle: the list rearranged by the permutation p.
Permute(s, p) == [i \in 1..Len(s) |-> s[p[i]]]

NewPlayer(i) == [name |-> <<"Player", i + 1>>, score |-> 0]
\* Variant: a correct answer is worth two points.
increase_score_two(p) == [p EXCEPT !.score = @ + 2]
\* Variant: the score is not touched.
increase_score_noop(p) == p
\* Variant: the score is set, not incremented.
increase_score_set(p) == [p EXCEPT !.score = 1]
increase_score(p) == [p EXCEPT !.score = @ + 1]

\* Variant: the point goes to the first player, whoever answered.
Award_first(ps, idx) == [ps EXCEPT ![1] = increase_score(@)]
\* current_player = self.players[current_player_index];
\* current_player.increase_score()
Award(ps, idx) == [ps EXCEPT ![idx + 1] = increase_score(@)]

\* Variant: the index is ignored and the last question is returned.
get_next_question_last(qs, idx) == IF idx >= Len(qs) THEN NoQuestion ELSE qs[Len(qs)]
\* Variant: the index is ignored and the first question is returned.
get_next_question_first(qs, idx) == IF idx >= Len(qs) THEN NoQuestion ELSE qs[1]
get_next_question(qs, idx) == IF idx >= Len(qs) THEN NoQuestion ELSE qs[idx + 1]

\* Variant: the lower bound of the range test is missing.
IndexInvalid_nolow(answer_index, n) == answer_index >= n
IndexInvalid(answer_index, n) == answer_index < 0 \/ answer_index >= n

\* l[i] of a Python list: a negative index counts from the end.
ListGet(l, i) == IF i < 0 THEN l[Len(l) + i + 1] ELSE l[i + 1]

\* Variant: the comparison never succeeds (index compared with the string).
IsCorrect_never(selected_answer, answer) == FALSE
IsCorrect(selected_answer, answer) == selected_answer = answer

\* Variant: the index is not wrapped around.
NextPlayer_nowrap(i, n) == i + 1
\* Variant: the turn does not pass on.
NextPlayer_stay(i, n) == i
NextPlayer(i, n) == (i + 1) % n
\* Variant: a question is skipped.
NextQuestionIndex_skip(i) == i + 2
NextQuestionIndex(i) == i + 1

LoopCondition(idx, qs) == idx < Len(qs)

\* The loop goes on to a prompt when its condition holds and the question
\* fetched is not None (the break); otherwise the results are printed.
Continues(idx, qs) == LoopCondition(idx, qs) /\ get_next_question(qs, idx) # NoQuestion
\* Variant: the emptiness test never fires.
NoQuestions_never(qs) == FALSE
NoQuestions(qs) == Len(qs) = 0

\* Variant: a later player with an equal score replaces the best so far.
RECURSIVE MaxByScore_last(_, _, _)
MaxByScore_last(ps, k, best) ==
    IF k > Len(ps) THEN best
    ELSE MaxByScore_last(ps, k + 1, IF ps[k].score >= best.score THEN ps[k] ELSE best)

\* max(players, key=score): the first player holding the largest score.
RECURSIVE MaxByScore(_, _, _)
MaxByScore(ps, k, best) ==
    IF k > Len(ps) THEN best
    ELSE MaxByScore(ps, k + 1, IF ps[k].score > best.score THEN ps[k] ELSE best)

Results(ps) == [i \in 1..Len(ps) |-> <<ps[i].name, ps[i].score>>]
NoWinner == [name |-> <<"Player", 0>>, score |-> 0]

RECURSIVE SumScores(_)
SumScores(ps) == IF ps = <<>> THEN 0 ELSE Head(ps).score + SumScores(Tail(ps))

\* ------------------------------------------------------------------- state
VARIABLES pc, file, num_players, questions, players,
          current_question_index, current_player_index,
          printed, diagnostics, exception,
          lastTurn, answered, valid_answers, scoreboard, winner

vars == <<pc, file, num_players, questions, players,
          current_question_index, current_player_index,
          printed, diagnostics, exception,
          lastTurn, answered, valid_answers, scoreboard, winner>>

NoTurn == [kind |-> "none", player |-> 0, qidx |-> 0, input |-> <<>>,
           presented |-> NoQuestion]

Init ==
    /\ pc = "main"
    /\ file \in Files
    /\ num_players \in 0..MaxPlayers
    /\ questions = <<>>
    /\ players = <<>>
    /\ current_question_index = 0
    /\ current_player_index = 0
    /\ printed = {}
    /\ diagnostics = <<>>
    /\ exception = "none"
    /\ lastTurn = NoTurn
    /\ answered = <<>>
    /\ valid_answers = 0
    /\ scoreboard = <<>>
    /\ winner = NoWinner

gameVars == <<players, current_question_index, current_player_index,
              lastTurn, answered, valid_answers, scoreboard, winner>>

\* questions = load_questions_from_file(args.file_path)
LoadQuestions ==
    /\ pc = "main"
    /\ IF file.kind = "missing"
       THEN /\ questions' = <<>>
            /\ printed' = printed \cup {"FileNotFound"}
            /\ UNCHANGED <<diagnostics, exception>>
            /\ pc' = "loaded"
       ELSE IF file.kind = "notjson"
       THEN /\ questions' = <<>>
            /\ printed' = printed \cup {"NotValidJSON"}
            /\ UNCHANGED <<diagnostics, exception>>
            /\ pc' = "loaded"
       ELSE LET r == LoadData(file.json)
            IN /\ diagnostics' = r.diags
               /\ UNCHANGED printed
               /\ IF r.raised
                  THEN /\ exception' = "TypeError"
                       /\ pc' = "raised"
                       /\ UNCHANGED questions
                  ELSE /\ questions' = r.questions
                       /\ pc' = "loaded"
                       /\ UNCHANGED exception
    /\ UNCHANGED <<file, num_players>>
    /\ UNCHANGED gameVars

\* main(): the emptiness check, then the players and the game are built.
MainCheck ==
    /\ pc = "loaded"
    /\ IF NoQuestions(questions)
       THEN /\ printed' = printed \cup {"NoValidQuestions"}
            /\ pc' = "exit"
            /\ UNCHANGED players
       ELSE /\ players' = [i \in 1..num_players |-> NewPlayer(i - 1)]
            /\ pc' = "setup"
            /\ UNCHANGED printed
    /\ UNCHANGED <<file, num_players, questions, current_question_index,
                   current_player_index, diagnostics, exception, lastTurn,
                   answered, valid_answers, scoreboard, winner>>

\* The code after the while loop: the scoreboard and the winner line.
Finish(ps) ==
    IF ps = <<>>
    THEN /\ pc' = "raised"
         /\ exception' = "ValueError"
         /\ scoreboard' = Results(ps)
         /\ UNCHANGED winner
    ELSE /\ pc' = "finished"
         /\ scoreboard' = Results(ps)
         /\ winner' = MaxByScore(ps, 2, ps[1])
         /\ UNCHANGED exception

\* play() up to the first test of the loop condition.
PlayStart ==
    /\ pc = "setup"
    /\ \E p \in Perms(Len(questions)) :
          /\ questions' = Permute(questions, p)
          /\ answered' = [o \in {q.oid : q \in Range(questions)} |-> 0]
    /\ current_player_index' = 0
    /\ IF Continues(current_question_index, questions)
       THEN /\ pc' = "inprogress"
            /\ UNCHANGED <<printed, exception, scoreboard, winner>>
       ELSE /\ printed' = printed \cup {"GameOver"}
            /\ Finish(players)
    /\ UNCHANGED <<file, num_players, players, current_question_index,
                   diagnostics, lastTurn, valid_answers>>

\* self.players[current_player_index] on an empty player list.
TurnNoPlayer ==
    /\ pc = "inprogress"
    /\ current_player_index >= Len(players)
    /\ pc' = "raised"
    /\ exception' = "IndexError"
    /\ UNCHANGED <<file, num_players, questions, players, current_question_index,
                   current_player_index, printed, diagnostics, lastTurn,
                   answered, valid_answers, scoreboard, winner>>

\* Variant: one option is lost in the shuffle (random.sample of len - 1).
Shown_sample(p) ==
    LET q == get_next_question(questions, current_question_index)
    IN [q EXCEPT !.options = SubSeq(Permute(q.options, p), 1, Len(q.options) - 1)]

\* The question shown in one loop iteration, its options freshly shuffled.
Shown(p) ==
    LET q == get_next_question(questions, current_question_index)
    IN [q EXCEPT !.options = Permute(q.options, p)]

TurnGuard ==
    /\ pc = "inprogress"
    /\ current_player_index < Len(players)

\* shuffle_options permutes the options of the object in place.
Present(q, kind, text) ==
    /\ questions' = [i \in 1..Len(questions) |->
                        IF questions[i].oid = q.oid THEN q ELSE questions[i]]
    /\ lastTurn' = [kind |-> kind, player |-> current_player_index,
                    qidx |-> current_question_index, input |-> text,
                    presented |-> q]

\* Input that is no integer or no option number: the loop continues.
InvalidTurn ==
    /\ TurnGuard
    /\ \E p \in Perms(Len(get_next_question(questions, current_question_index).options)),
          text \in Inputs :
          LET q == Shown(p)
              n == ParseInt(text)
          IN /\ ~n.ok \/ IndexInvalid(n.v - 1, Len(q.options))
             /\ Present(q, "invalid", text)
    /\ printed' = printed \cup {"Prompt"}
    /\ UNCHANGED <<pc, file, num_players, players, current_question_index,
                   current_player_index, diagnostics, exception, answered,
                   valid_answers, scoreboard, winner>>

\* A valid selection that is not the answer.
IncorrectTurn ==
    /\ TurnGuard
    /\ valid_answers - current_question_index < MaxWrong
    /\ \E p \in Perms(Len(get_next_question(questions, current_question_index).options)),
          text \in Inputs :
          LET q == Shown(p)
              n == ParseInt(text)
          IN /\ n.ok /\ ~IndexInvalid(n.v - 1, Len(q.options))
             /\ ~IsCorrect(ListGet(q.options, n.v - 1), q.answer)
             /\ Present(q, "incorrect", text)
    /\ printed' = printed \cup {"Prompt"}
    /\ current_player_index' = NextPlayer(current_player_index, Len(players))
    /\ valid_answers' = valid_answers + 1
    /\ UNCHANGED <<pc, file, num_players, players, current_question_index,
                   diagnostics, exception, answered, scoreboard, winner>>

\* A valid selection of the answer; after the last question the loop ends
\* and the results are printed.
CorrectTurn ==
    /\ TurnGuard
    /\ \E p \in Perms(Len(get_next_question(questions, current_question_index).options)),
          text \in Inputs :
          LET q == Shown(p)
              n == ParseInt(text)
          IN /\ n.ok /\ ~IndexInvalid(n.v - 1, Len(q.options))
             /\ IsCorrect(ListGet(q.options, n.v - 1), q.answer)
             /\ Present(q, "correct", text)
    /\ players' = Award(players, current_player_index)
    /\ current_player_index' = NextPlayer(current_player_index, Len(players))
    /\ current_question_index' = NextQuestionIndex(current_question_index)
    /\ answered' = [answered EXCEPT ![lastTurn'.presented.oid] = @ + 1]
    /\ valid_answers' = valid_answers + 1
    /\ IF Continues(current_question_index', questions')
       THEN /\ printed' = printed \cup {"Prompt"}
            /\ UNCHANGED <<pc, exception, scoreboard, winner>>
       ELSE /\ printed' = printed \cup {"Prompt", "GameOver"}
            /\ Finish(players')
    /\ UNCHANGED <<file, num_players, diagnostics>>

Next ==
    \/ LoadQuestions
    \/ MainCheck
    \/ PlayStart
    \/ TurnNoPlayer
    \/ InvalidTurn
    \/ IncorrectTurn
    \/ CorrectTurn

Spec == Init /\ [][Next]_vars

\* play() runs on once called, and at every prompt a valid selection of the
\* correct option is eventually entered.
FairSpec ==
    /\ Spec
    /\ WF_vars(PlayStart)
    /\ WF_vars(CorrectTurn)

\* ---------------------------------------------------------------- helpers
AnswerAmongOptions(q) == q.answer \in Range(q.options)
InGame == pc \in {"inprogress", "finished"}

\* The step taken is one loop iteration that read the line lastTurn'.input
\* and showed lastTurn'.presented.
TurnStep == pc = "inprogress" /\ current_player_index < Len(players)
StepSelection == ParseInt(lastTurn'.input)
StepOptions == lastTurn'.presented.options
StepSelectionValid ==
    /\ StepSelection.ok
    /\ StepSelection.v - 1 >= 0
    /\ StepSelection.v - 1 < Len(StepOptions)

\* ------------------------------------------------------------------ claims

\* C1: with at least one question, every question's answer among its
\* options and at least one player, play() eventually reaches Finished,
\* provided the correct option is eventually selected at each prompt.
C1_Termination ==
    (/\ pc = "setup"
     /\ Len(players) >= 1
     /\ \A i \in 1..Len(questions) : AnswerAmongOptions(questions[i]))
    ~> (pc = "finished")

C1_Witness ==
    /\ pc = "finished"
    /\ Len(questions) = 2
    /\ valid_answers > current_question_index

\* C2: the question presented on a turn is questions[current_question_index];
\* a question has one correct answer once the index has passed it and none
\* before; a question presented has not been answered correctly before;
\* at the end every question has exactly one correct answer.
C2_State ==
    /\ InGame =>
          \A i \in 1..Len(questions) :
             answered[questions[i].oid] = IF i <= current_question_index THEN 1 ELSE 0
    /\ lastTurn.kind # "none" =>
          lastTurn.presented.oid = questions[lastTurn.qidx + 1].oid
    /\ pc = "finished" =>
          /\ current_question_index = Len(questions)
          /\ \A i \in 1..Len(questions) : answered[questions[i].oid] = 1

C2_Step ==
    TurnStep =>
       /\ lastTurn'.qidx = current_question_index
       /\ answered[lastTurn'.presented.oid] = 0

C2_ConsumedOnce == [](C2_State) /\ [][C2_Step]_vars

C2_Witness ==
    /\ pc = "finished"
    /\ Len(questions) = 2
    /\ questions[1].oid > questions[2].oid
    /\ valid_answers > current_question_index

\* C3: in the Finished state the players' scores add up to the number of
\* questions.
C3_ScoreSum == pc = "finished" => SumScores(players) = Len(questions)

C3_Witness ==
    /\ pc = "finished"
    /\ Len(questions) = 2
    /\ Len(players) = 2
    /\ valid_answers > current_question_index
    /\ SumScores(players) = 2

\* C4: a valid selection of an option that is not the answer leaves the
\* question index and every score as they were and passes the turn to
\* player (current_player_index + 1) mod numPlayers, who is asked the same
\* question.
C4_Incorrect ==
    (/\ TurnStep
     /\ StepSelectionValid
     /\ StepOptions[StepSelection.v] # lastTurn'.presented.answer)
    => /\ current_question_index' = current_question_index
       /\ players' = players
       /\ current_player_index' = (current_player_index + 1) % Len(players)
       /\ pc' = "inprogress"
       /\ get_next_question(questions', current_question_index').oid
             = lastTurn'.presented.oid

C4_IncorrectStep == [][C4_Incorrect]_vars

C4_Witness ==
    /\ lastTurn.kind = "incorrect"
    /\ Len(players) = 2
    /\ current_player_index = 0
    /\ current_question_index = 1

\* C5: a valid selection of the answer adds exactly 1 to the current
\* player's score, adds exactly 1 to the question index and passes the turn
\* to player (current_player_index + 1) mod numPlayers.
C5_Correct ==
    (/\ TurnStep
     /\ StepSelectionValid
     /\ StepOptions[StepSelection.v] = lastTurn'.presented.answer)
    => /\ players'[current_player_index + 1].score
             = players[current_player_index + 1].score + 1
       /\ current_question_index' = current_question_index + 1
       /\ current_player_index' = (current_player_index + 1) % Len(players)

C5_CorrectStep == [][C5_Correct]_vars

C5_Witness ==
    /\ lastTurn.kind = "correct"
    /\ lastTurn.player = 1
    /\ players[2].score = 1
    /\ players[1].score = 0
    /\ winner.name = <<"Player", 2>>

\* C6: a line that is no integer, or whose index is outside
\* [0, numOptions), changes no score, not the question index and not the
\* current player; the same player is prompted again for the same question.
C6_Rejected ==
    (/\ TurnStep
     /\ ~StepSelectionValid)
    => /\ players' = players
       /\ current_question_index' = current_question_index
       /\ current_player_index' = current_player_index
       /\ pc' = "inprogress"
       /\ get_next_question(questions', current_question_index').oid
             = lastTurn'.presented.oid

C6_RejectedStep == [][C6_Rejected]_vars

C6_Witness ==
    /\ lastTurn.kind = "invalid"
    /\ lastTurn.input = <<"0">>
    /\ valid_answers > 0
    /\ pc = "inprogress"

\* C7: every Question of the returned list has its answer among its options.
C7_AnswerValidated ==
    pc \in {"loaded", "exit", "setup", "inprogress", "finished"} =>
       \A i \in 1..Len(questions) : AnswerAmongOptions(questions[i])

\* C8: when the loader returns, no entry with fewer than 2 options is in the
\* list and each has a diagnostic; every well-formed entry is in the list
\* with its prompt, answer and options unchanged, and the list keeps the
\* input order.
WellFormed(e) ==
    /\ e.t = "obj"
    /\ e.question.t = "str"
    /\ e.options.t = "list"
    /\ Len(e.options.l) >= 2
    /\ e.answer.t = "str"
    /\ e.answer.s \in Range(e.options.l)

ShortOptions(e) == e.t = "obj" /\ e.options.t = "list" /\ Len(e.options.l) < 2

C8_LoaderRoundTrip ==
    (pc = "loaded" /\ file.kind = "json" /\ file.json.t = "arr") =>
       LET es == file.json.es
       IN /\ \A k \in 1..Len(es) :
                ShortOptions(es[k]) =>
                   /\ \A i \in 1..Len(questions) : questions[i].oid # k
                   /\ \E d \in 1..Len(diagnostics) : diagnostics[d].entry = k
          /\ \A k \in 1..Len(es) :
                WellFormed(es[k]) =>
                   \E i \in 1..Len(questions) :
                      questions[i] = [oid |-> k,
                                      question |-> es[k].question.s,
                                      options |-> es[k].options.l,
                                      answer |-> es[k].answer.s]
          /\ \A i, j \in 1..Len(questions) :
                i < j => questions[i].oid < questions[j].oid

C8_Witness ==
    /\ pc = "loaded"
    /\ file.kind = "json"
    /\ file.json.t = "arr"
    /\ Len(file.json.es) = 2
    /\ ShortOptions(file.json.es[1])
    /\ WellFormed(file.json.es[2])
    /\ Len(questions) = 1

\* C9: load_questions_from_file never raises to its caller.
C9_LoaderNeverRaises == ~(pc = "raised" /\ exception = "TypeError")

\* C10: when the loader returned no question, main() reports it and returns:
\* no game is set up, nobody is prompted, no results are printed.
C10_NoQuestionsNoGame ==
    (pc # "main" /\ ~(pc = "raised" /\ exception = "TypeError") /\ questions = <<>>) =>
       /\ pc \in {"loaded", "exit"}
       /\ pc = "exit" => "NoValidQuestions" \in printed
       /\ "Prompt" \notin printed
       /\ "GameOver" \notin printed
       /\ players = <<>>
       /\ lastTurn = NoTurn
       /\ scoreboard = <<>>
       /\ winner = NoWinner

C10_Witness ==
    /\ pc = "exit"
    /\ file.kind = "json"
    /\ file.json.t = "arr"
    /\ Len(file.json.es) = 2
    /\ "NoValidQuestions" \in printed

\* C11: a game is never set up or played with an empty player list, and
\* the engine never indexes into an empty player sequence.
C11_ZeroPlayersRejected ==
    /\ pc \in {"setup", "inprogress", "finished"} => Len(players) >= 1
    /\ exception # "IndexError"

\* C12: the announced winner has a score no smaller than any player's and
\* is the first player in player order holding that score; the scoreboard
\* lists every player once, in player order, with the final score.
C12_Winner ==
    pc = "finished" =>
       /\ \E w \in 1..Len(players) :
             /\ winner = players[w]
             /\ \A j \in 1..Len(players) : players[j].score <= players[w].score
             /\ \A j \in 1..(w - 1) : players[j].score < players[w].score
       /\ Len(scoreboard) = num_players
       /\ \A i \in 1..Len(scoreboard) :
             scoreboard[i] = <<(<<"Player", i>>), players[i].score>>

C12_Witness ==
    /\ pc = "finished"
    /\ Len(players) = 2
    /\ players[1].score = 1
    /\ players[2].score = 1
    /\ winner.name = <<"Player", 1>>

\* C13: in every state of a game 0 <= current_question_index <=
\* len(questions); the index never decreases and grows by at most 1 per
\* step; it equals len(questions) only in the Finished state, and no player
\* is prompted while it does.
GameExists == pc \in {"setup", "inprogress", "finished"} \/ exception = "IndexError"

C13_State ==
    GameExists =>
       /\ current_question_index >= 0
       /\ current_question_index <= Len(questions)
       /\ current_question_index = Len(questions) => pc = "finished"

C13_Step ==
    /\ current_question_index' \in {current_question_index, current_question_index + 1}
    /\ TurnStep => current_question_index < Len(questions)

C13_QuestionIndex == [](C13_State) /\ [][C13_Step]_vars

C13_Witness ==
    /\ pc = "inprogress"
    /\ current_question_index = 1
    /\ Len(questions) = 2
    /\ lastTurn.kind = "invalid"

\* C14: every player starts with score 0; a step changes a score by 0 or
\* by +1, never down and never back to 0; a +1 happens only on the step in
\* which that player, being the current player, selected the answer.
C14_State ==
    pc = "setup" =>
       /\ Len(players) = num_players
       /\ \A i \in 1..Len(players) : players[i].score = 0

C14_Step ==
    /\ Len(players') >= Len(players)
    /\ \A i \in 1..Len(players') :
          LET old == IF i <= Len(players) THEN players[i].score ELSE 0
          IN /\ players'[i].score \in {old, old + 1}
             /\ players'[i].score = old + 1 =>
                   /\ TurnStep
                   /\ i = current_player_index + 1
                   /\ StepSelectionValid
                   /\ StepOptions[StepSelection.v] = lastTurn'.presented.answer

C14_ScoreLifecycle == [](C14_State) /\ [][C14_Step]_vars

C14_Witness ==
    /\ Len(players) = 1
    /\ players[1].score = 2
    /\ valid_answers > 2

\* C15: play starts with player 0, and the current player index equals the
\* number of valid answers given so far modulo the number of players; an
\* invalid input does not count.  A valid answer passes the turn to another
\* player when there are at least 2 players and keeps it when there is 1.
C15_State ==
    (pc \in {"inprogress", "finished"} /\ Len(players) >= 1) =>
       current_player_index = valid_answers % Len(players)

C15_Step ==
    /\ pc = "setup" => current_player_index' = 0 /\ valid_answers' = 0
    /\ TurnStep =>
          /\ valid_answers' = valid_answers + (IF StepSelectionValid THEN 1 ELSE 0)
          /\ (StepSelectionValid /\ Len(players) >= 2) =>
                current_player_index' # current_player_index
          /\ (StepSelectionValid /\ Len(players) = 1) =>
                current_player_index' = current_player_index

C15_Rotation == [](C15_State) /\ [][C15_Step]_vars

C15_Witness ==
    /\ pc = "inprogress"
    /\ Len(players) = 2
    /\ valid_answers = 3
    /\ current_player_index = 1

\* a is b rearranged.
IsPermutationOf(a, b) ==
    /\ Len(a) = Len(b)
    /\ \E p \in Perms(Len(b)) : \A i \in 1..Len(b) : a[i] = b[p[i]]

BagOf(l) == [x \in Range(l) |-> Cardinality({i \in 1..Len(l) : l[i] = x})]
RejectedStep == TurnStep /\ ~StepSelectionValid

\* C16 as stated: a rejected turn changes nothing at all, the option
\* ordering of every question included.
C16_Original ==
    RejectedStep =>
       /\ questions' = questions
       /\ players' = players
       /\ current_question_index' = current_question_index
       /\ current_player_index' = current_player_index

C16_NoMutation == [][C16_Original]_vars

\* C16 as amended: a rejected turn changes no score, index or player, not
\* the order of the questions and no question other than the current one;
\* of the current question only the ordering of the options may change.
C16_Amended ==
    RejectedStep =>
       /\ players' = players
       /\ current_question_index' = current_question_index
       /\ current_player_index' = current_player_index
       /\ Len(questions') = Len(questions)
       /\ \A i \in 1..Len(questions) :
             IF i = current_question_index + 1
             THEN /\ questions'[i].oid = questions[i].oid
                  /\ questions'[i].question = questions[i].question
                  /\ questions'[i].answer = questions[i].answer
                  /\ IsPermutationOf(questions'[i].options, questions[i].options)
             ELSE questions'[i] = questions[i]

C16_RejectedFrame == [][C16_Amended]_vars

C16_Witness ==
    /\ lastTurn.kind = "invalid"
    /\ valid_answers = 0
    /\ Len(questions) = 2
    /\ questions[1].options # file.json.es[questions[1].oid].options.l
    /\ questions[2].options = file.json.es[questions[2].oid].options.l

\* C17: every question keeps the multiset of options, the prompt and the
\* answer it was loaded with, in every state and at every presentation; a
\* question loaded with its answer among its options keeps it there and
\* offers a selection that is judged correct.
SameAsLoaded(q) ==
    LET e == file.json.es[q.oid]
    IN /\ BagOf(q.options) = BagOf(e.options.l)
       /\ Len(q.options) = Len(e.options.l)
       /\ q.answer = e.answer.s
       /\ q.question = e.question.s
       /\ e.answer.s \in Range(e.options.l) =>
             \E k \in 1..Len(q.options) : q.options[k] = q.answer

C17_PurePermutation ==
    /\ \A i \in 1..Len(questions) : SameAsLoaded(questions[i])
    /\ lastTurn.kind # "none" => SameAsLoaded(lastTurn.presented)

C17_Witness ==
    /\ pc = "inprogress"
    /\ lastTurn.kind = "invalid"
    /\ valid_answers = 2
    /\ current_question_index = 0
    /\ questions[1].options # file.json.es[questions[1].oid].options.l
    /\ AnswerAmongOptions(questions[1])

\* C18: play() rearranges the loaded questions once, before the first turn;
\* afterwards no step changes the order or the membership of the sequence.
OidSeq(qs) == [i \in 1..Len(qs) |-> qs[i].oid]

C18_State ==
    (file.kind = "json" /\ file.json.t = "arr" /\ pc \in {"inprogress", "finished"}) =>
       IsPermutationOf(OidSeq(questions), OidSeq(LoadEntries(file.json.es, 1, <<>>, <<>>).questions))

C18_Step ==
    /\ pc = "setup" => IsPermutationOf(questions', questions)
    /\ pc \notin {"main", "setup"} => OidSeq(questions') = OidSeq(questions)

C18_ShuffledOnce == [](C18_State) /\ [][C18_Step]_vars

C18_Witness ==
    /\ pc = "inprogress"
    /\ Len(questions) = 2
    /\ questions[1].oid = 2
    /\ valid_answers = 1
    /\ current_question_index = 0

\* C19: in every state of a game the players' scores add up to
\* current_question_index.
C19_ScoreSumAlways == GameExists => SumScores(players) = current_question_index

C19_Witness ==
    /\ pc = "inprogress"
    /\ current_question_index = 1
    /\ valid_answers = 2
    /\ Len(players) = 2
    /\ players[2].score = 1

\* C20: no step of a game changes the player list or a name, and a step
\* changes no score but the current player's.
C20_Frame ==
    pc \in {"setup", "inprogress", "finished"} =>
       /\ Len(players') = Len(players)
       /\ \A j \in 1..Len(players) :
             /\ players'[j].name = players[j].name
             /\ j # current_player_index + 1 => players'[j].score = players[j].score

C20_OtherPlayersUnchanged == [][C20_Frame]_vars

C20_Witness ==
    /\ Len(players) = 2
    /\ players[1].score = 0
    /\ players[2].score = 2
    /\ lastTurn.kind = "correct"

====
